---------------------------- MODULE Spec2Model ----------------------------
(***************************************************************************)
(* A model of the class-file decoder of src/class_parser/src/lib.rs        *)
(* (deserializable_class and everything it calls) over the data model of   *)
(* src/class/src/lib.rs.                                                   *)
(*                                                                         *)
(* The decoder is a recursive-descent parser over one byte source.  The    *)
(* model runs it as a state machine: pc names the deserialize impl that    *)
(* reads next, stream is the byte source, and every action is one impl     *)
(* (one element of a table where the code maps over a range).  The bytes   *)
(* of the source are not fixed in advance: every read draws the value it   *)
(* finds from a small set, or finds the end of the source, so that the     *)
(* behaviours of the model are the decodes of all byte sources over those  *)
(* sets.                                                                   *)
(***************************************************************************)
EXTENDS Integers, Sequences, FiniteSets, TLC

(***************************************************************************)
(* Bounds of the byte sources explored.                                    *)
(***************************************************************************)
MaxCount == 1   \* largest count a table of the class body declares
MaxItems == 3   \* most table entries (interfaces, members, attributes, rows) of one source
MaxBody == 2    \* largest attribute length / code length a source declares

\* 0xCAFEBABE, as the four bytes read_u32 assembles (the value exceeds the
\* integers of the model checker)
Magic == <<202, 254, 186, 190>>
NotMagic == <<202, 254, 186, 191>>

VARIABLES
    pc,       \* the impl that reads next; "done" when deserializable_class has returned
    stream,   \* the byte source: [pos, eof, pend, cut]
    left,     \* what the running loops still have to read
    proxy,    \* pass 1: Vec<ProxyConstPoolType>
    pool,     \* pass 2: Vec<ConstPoolType> (Class.const_pool)
    cls,      \* the Class under assembly
    member,   \* the ComponentInfo under assembly
    code,     \* the CodeAttribute under assembly
    result,   \* what deserializable_class returned: "none" while it runs
    last      \* history: the impl that ran last, where it started, what it dereferenced

vars == <<pc, stream, left, proxy, pool, cls, member, code, result, last>>

(***************************************************************************)
(* Bytes, big-endian integers and UTF-8.                                   *)
(***************************************************************************)
RECURSIVE BE(_)
\* byteorder's BigEndian: the unsigned value of a byte sequence
BE(bs) == IF bs = <<>> THEN 0 ELSE BE(SubSeq(bs, 1, Len(bs) - 1)) * 256 + bs[Len(bs)]

Zeros(n) == [i \in 1..n |-> 0]

Cont(b) == b >= 128 /\ b <= 191

RECURSIVE from_utf8(_)
\* String::from_utf8: TRUE iff the bytes are well-formed (standard) UTF-8
from_utf8(d) ==
    IF d = <<>> THEN TRUE
    ELSE LET b == d[1]
             n == Len(d)
             rest(k) == SubSeq(d, k + 1, n)
         IN  IF b < 128 THEN from_utf8(rest(1))
             ELSE IF b >= 194 /\ b <= 223
                  THEN n >= 2 /\ Cont(d[2]) /\ from_utf8(rest(2))
             ELSE IF b >= 224 /\ b <= 239
                  THEN /\ n >= 3
                       /\ Cont(d[2]) /\ Cont(d[3])
                       /\ (b = 224 => d[2] >= 160)
                       /\ (b = 237 => d[2] <= 159)
                       /\ from_utf8(rest(3))
             ELSE IF b >= 240 /\ b <= 244
                  THEN /\ n >= 4
                       /\ Cont(d[2]) /\ Cont(d[3]) /\ Cont(d[4])
                       /\ (b = 240 => d[2] >= 144)
                       /\ (b = 244 => d[2] <= 143)
                       /\ from_utf8(rest(4))
             ELSE FALSE

\* the attribute names the dispatchers match, as the bytes of the literals
N_Code == <<67, 111, 100, 101>>
N_Synthetic == <<83, 121, 110, 116, 104, 101, 116, 105, 99>>
N_SourceFile == <<83, 111, 117, 114, 99, 101, 70, 105, 108, 101>>
N_LineNumberTable == <<76, 105, 110, 101, 78, 117, 109, 98, 101, 114, 84, 97, 98, 108, 101>>
N_LocalVariableTable ==
    <<76, 111, 99, 97, 108, 86, 97, 114, 105, 97, 98, 108, 101, 84, 97, 98, 108, 101>>
N_Deprecated == <<68, 101, 112, 114, 101, 99, 97, 116, 101, 100>>
N_InnerClasses == <<73, 110, 110, 101, 114, 67, 108, 97, 115, 115, 101, 115>>
N_Exceptions == <<69, 120, 99, 101, 112, 116, 105, 111, 110, 115>>
N_ConstantValue == <<67, 111, 110, 115, 116, 97, 110, 116, 86, 97, 108, 117, 101>>

\* other Utf8 payloads a source may hold: "A", U+00E9 (two bytes), and the
\* modified-UTF-8 encoding of NUL, which is not standard UTF-8
S_A == <<65>>
S_Eacute == <<195, 169>>
S_ModNul == <<192, 128>>

Utf8Contents ==
    { N_Code, N_Synthetic, N_SourceFile, N_LineNumberTable, N_LocalVariableTable,
      N_Deprecated, N_InnerClasses, N_Exceptions, N_ConstantValue,
      S_A, S_Eacute, S_ModNul }

(***************************************************************************)
(* The byte source.  pos counts the bytes consumed, eof says that the      *)
(* source has been found to end, pend holds bytes that the source has      *)
(* already fixed but not yet handed out, cut is history: the payload of    *)
(* the Utf8 entry in which the source ended.                               *)
(***************************************************************************)
Stream0 == [pos |-> 0, eof |-> FALSE, pend |-> <<>>, cut |-> <<>>]

\* read_exact of an n-byte big-endian field (read_u8, read_u16, read_u32, ...):
\* the outcomes [ok, val, st]; a fresh field holds a value of V, or the source
\* ends after k < n of its bytes
Rd(st, n, V) ==
    IF st.eof THEN {[ok |-> FALSE, val |-> 0, st |-> st]}
    ELSE IF Len(st.pend) >= n
    THEN {[ok |-> TRUE, val |-> BE(SubSeq(st.pend, 1, n)),
           st |-> [st EXCEPT !.pos = @ + n,
                             !.pend = SubSeq(st.pend, n + 1, Len(st.pend))]]}
    ELSE IF st.pend # <<>>
    THEN {[ok |-> TRUE, val |-> BE(st.pend \o Zeros(n - Len(st.pend))),
           st |-> [st EXCEPT !.pos = @ + n, !.pend = <<>>]],
          [ok |-> FALSE, val |-> 0,
           st |-> [st EXCEPT !.pos = @ + Len(st.pend), !.pend = <<>>, !.eof = TRUE]]}
    ELSE {[ok |-> TRUE, val |-> v, st |-> [st EXCEPT !.pos = @ + n]] : v \in V}
         \cup {[ok |-> FALSE, val |-> 0, st |-> [st EXCEPT !.pos = @ + k, !.eof = TRUE]]
               : k \in 0..(n - 1)}

\* read_exact of n bytes kept as bytes (the magic)
RdBytes(st, n, VB) ==
    IF st.eof THEN {[ok |-> FALSE, val |-> <<>>, st |-> st]}
    ELSE IF Len(st.pend) >= n
    THEN {[ok |-> TRUE, val |-> SubSeq(st.pend, 1, n),
           st |-> [st EXCEPT !.pos = @ + n,
                             !.pend = SubSeq(st.pend, n + 1, Len(st.pend))]]}
    ELSE IF st.pend # <<>>
    THEN {[ok |-> TRUE, val |-> st.pend \o Zeros(n - Len(st.pend)),
           st |-> [st EXCEPT !.pos = @ + n, !.pend = <<>>]],
          [ok |-> FALSE, val |-> <<>>,
           st |-> [st EXCEPT !.pos = @ + Len(st.pend), !.pend = <<>>, !.eof = TRUE]]}
    ELSE {[ok |-> TRUE, val |-> v, st |-> [st EXCEPT !.pos = @ + n]] : v \in VB}
         \cup {[ok |-> FALSE, val |-> <<>>, st |-> [st EXCEPT !.pos = @ + k, !.eof = TRUE]]
               : k \in 0..(n - 1)}

\* the places inside a payload of n bytes where the sources end or split a read
Cuts(n) == {k \in {0, 1, n - 1} : k < n}

\* Read::read into a zeroed buffer of n bytes: the outcomes [data, st], for a
\* source whose payloads are in S.  The
\* source may hand out all n bytes, end after k < n of them, or hand out only
\* k of them now and the others on the next read; the bytes not handed out
\* stay zero
ReadBuf(st, n, S) ==
    IF n = 0 \/ st.eof THEN {[data |-> Zeros(n), st |-> st]}
    ELSE IF st.pend # <<>>
    THEN LET k == IF n < Len(st.pend) THEN n ELSE Len(st.pend)
         IN  {[data |-> SubSeq(st.pend, 1, k) \o Zeros(n - k),
               st |-> [st EXCEPT !.pos = @ + k,
                                 !.pend = SubSeq(st.pend, k + 1, Len(st.pend))]]}
    ELSE UNION { {[data |-> s, st |-> [st EXCEPT !.pos = @ + n]]}
                 \cup {[data |-> SubSeq(s, 1, k) \o Zeros(n - k),
                        st |-> [st EXCEPT !.pos = @ + k, !.eof = TRUE, !.cut = s]]
                       : k \in Cuts(n)}
                 \cup {[data |-> SubSeq(s, 1, k) \o Zeros(n - k),
                        st |-> [st EXCEPT !.pos = @ + k, !.pend = SubSeq(s, k + 1, n)]]
                       : k \in Cuts(n) \ {0}}
               : s \in {c \in S : Len(c) = n} }

(***************************************************************************)
(* Constant pool, pass 1: the proxies (mod proxy).                         *)
(*                                                                         *)
(* A proxy is [kind, i1, i2, str, num]: kind "Utf8", "Int", "Float",       *)
(* "Long", "Double" is ProxyConstPoolType::Value of that variant (str the  *)
(* Utf8 payload, num the bits of the number), the other kinds hold the     *)
(* real (0-based) indices read: i1 for Class and String, i1 = name and     *)
(* i2 = descriptor for NameAndType, i1 = class and i2 = name_and_type for  *)
(* FieldRef, MethodRef, InterfaceMethodRef.                                *)
(***************************************************************************)
PX(k, a, b, s, n) == [kind |-> k, i1 |-> a, i2 |-> b, str |-> s, num |-> n]
NoProxy == PX("", 0, 0, <<>>, 0)

\* the outcome of an impl: the error (or "none"), the source after it, its
\* value and, as history, the indices it read (as read, 1-based)
Out(e, st, v) == [err |-> e, st |-> st, val |-> v, raws |-> <<>>]

\* the tags of the class-file format that the decoder knows, and one it does not
ValidTags == {1, 3, 4, 5, 6, 7, 8, 9, 10, 11, 12}
InvalidTags == {2}

\* the tag that reads a proxy of the kind
TagOf(p) ==
    CASE p.kind = "Utf8" -> 1 [] p.kind = "Int" -> 3 [] p.kind = "Float" -> 4
      [] p.kind = "Long" -> 5 [] p.kind = "Double" -> 6 [] p.kind = "Class" -> 7
      [] p.kind = "String" -> 8 [] p.kind = "FieldRef" -> 9 [] p.kind = "MethodRef" -> 10
      [] p.kind = "InterfaceMethodRef" -> 11 [] p.kind = "NameAndType" -> 12

\* The pools explored, by the tags of their entries: every pool of one or two
\* entries, a Utf8 and a Class followed by any entry, a Long or Double followed
\* by a Utf8 and a Class, and the smallest pools in which a FieldRef, MethodRef
\* or InterfaceMethodRef resolves.  The indices and payloads are free.
PoolShapes ==
    {<<a, b>> : a, b \in ValidTags}
    \cup {<<1, 7, t>> : t \in ValidTags}
    \cup {<<5, 1, 7>>, <<6, 1, 7>>}
    \cup {<<1, 7, 12, r>> : r \in {9, 10, 11}}

LongestShape == CHOOSE n \in {Len(s) : s \in PoolShapes} : \A s \in PoolShapes : Len(s) <= n

IsPrefix(p, s) == Len(p) <= Len(s) /\ SubSeq(s, 1, Len(p)) = p

\* the tags the next entry of the source may have, after entries px
TagChoices(px) ==
    LET ts == [i \in 1..Len(px) |-> TagOf(px[i])]
    IN  {t \in ValidTags : \E s \in PoolShapes : IsPrefix(Append(ts, t), s)} \cup InvalidTags

\* the Utf8 payloads of a source whose pool has n slots: the larger the pool,
\* the fewer payloads
Payloads(n) ==
    IF n <= 2 THEN Utf8Contents
    ELSE IF n = 3
    THEN {N_Code, N_LineNumberTable, N_LocalVariableTable, N_ConstantValue, S_A}
    ELSE {N_ConstantValue, S_A}

\* the values an index field of a pool of n slots may hold: 0, the slots, one past them
IdxChoices(n) == 0..((IF n < LongestShape THEN n ELSE LongestShape) + 1)

\* the bits of the one number of each width the sources hold
NumChoices == {5}

get_real_index(st, V) ==
    { IF ~r.ok THEN Out("CannotRead", r.st, 0)
      ELSE IF r.val = 0 THEN [Out("Link", r.st, 0) EXCEPT !.raws = <<r.val>>]
      ELSE [Out("none", r.st, r.val - 1) EXCEPT !.raws = <<r.val>>]
      : r \in Rd(st, 2, V) }

Utf8Info_deserialize(st, S) ==
    UNION { IF ~r.ok THEN {Out("CannotRead", r.st, <<>>)}
            ELSE { IF from_utf8(d.data) THEN Out("none", d.st, d.data)
                   ELSE Out("Encoding", d.st, <<>>)
                   : d \in ReadBuf(r.st, r.val, S) }
            : r \in Rd(st, 2, {Len(s) : s \in S}) }

\* IntInfo, FloatInfo (w = 4), LongInfo, DoubleInfo (w = 8)
Number_deserialize(st, w) ==
    { IF ~r.ok THEN Out("CannotRead", r.st, 0) ELSE Out("none", r.st, r.val)
      : r \in Rd(st, w, NumChoices) }

\* Proxy::deserialize, for ClassProxy (kind "Class") and StringProxy (kind "String")
Proxy_deserialize(st, V, kind) ==
    { IF a.err # "none" THEN [Out(a.err, a.st, NoProxy) EXCEPT !.raws = a.raws]
      ELSE [Out("none", a.st, PX(kind, a.val, 0, <<>>, 0)) EXCEPT !.raws = a.raws]
      : a \in get_real_index(st, V) }

\* NameAndTypeProxy::deserialize and DoubleProxy::deserialize: two real indices
DoubleProxy_deserialize(st, V, kind) ==
    UNION { IF a.err # "none" THEN {[Out(a.err, a.st, NoProxy) EXCEPT !.raws = a.raws]}
            ELSE { IF b.err # "none"
                   THEN [Out(b.err, b.st, NoProxy) EXCEPT !.raws = a.raws \o b.raws]
                   ELSE [Out("none", b.st, PX(kind, a.val, b.val, <<>>, 0))
                            EXCEPT !.raws = a.raws \o b.raws]
                   : b \in get_real_index(a.st, V) }
            : a \in get_real_index(st, V) }

Value(outs, kind) ==
    { IF o.err # "none" THEN Out(o.err, o.st, NoProxy)
      ELSE Out("none", o.st, IF kind = "Utf8" THEN PX(kind, 0, 0, o.val, 0)
                                              ELSE PX(kind, 0, 0, <<>>, o.val))
      : o \in outs }

ProxyConstPoolType_deserialize(st, T, V, S) ==
    UNION { IF ~t.ok THEN {Out("CannotRead", t.st, NoProxy)}
            ELSE CASE t.val = 1 -> Value(Utf8Info_deserialize(t.st, S), "Utf8")
                   [] t.val = 3 -> Value(Number_deserialize(t.st, 4), "Int")
                   [] t.val = 4 -> Value(Number_deserialize(t.st, 4), "Float")
                   [] t.val = 5 -> Value(Number_deserialize(t.st, 8), "Long")
                   [] t.val = 6 -> Value(Number_deserialize(t.st, 8), "Double")
                   [] t.val = 7 -> Proxy_deserialize(t.st, V, "Class")
                   [] t.val = 8 -> Proxy_deserialize(t.st, V, "String")
                   [] t.val = 9 -> DoubleProxy_deserialize(t.st, V, "FieldRef")
                   [] t.val = 10 -> DoubleProxy_deserialize(t.st, V, "MethodRef")
                   [] t.val = 11 -> DoubleProxy_deserialize(t.st, V, "InterfaceMethodRef")
                   [] t.val = 12 -> DoubleProxy_deserialize(t.st, V, "NameAndType")
                   [] OTHER -> {Out("Parsing", t.st, NoProxy)}
            : t \in Rd(st, 1, T) }

(***************************************************************************)
(* Constant pool, pass 2: ResolveProxy.                                    *)
(*                                                                         *)
(* A resolved entry (ConstPoolType) is [kind, a, b, c, num]: a the payload *)
(* of Utf8, String and Class (the name); a = name and b = descriptor of    *)
(* NameAndType; a = class name, b = name, c = descriptor of Field,         *)
(* MethodRef, InterfaceMethodRef; num the bits of a number.  A resolve     *)
(* returns [ok, v, hops]; not ok is Err(Link), hops is history (see Hop).  *)
(***************************************************************************)
E(k, a, b, c, n) == [kind |-> k, a |-> a, b |-> b, c |-> c, num |-> n]
NoEntry == E("", <<>>, <<>>, <<>>, 0)
Link == [ok |-> FALSE, v |-> NoEntry, hops |-> <<>>]
Got(v) == [ok |-> TRUE, v |-> v, hops |-> <<>>]

\* history of one pool.get of pass 2: the index (1-based), the variant found
\* there ("range": none), the variant the caller matches, and how many gets
\* deep in the resolution of one entry it is made
Hop(i, px, need) ==
    [depth |-> 1, idx |-> i + 1, found |-> IF i < Len(px) THEN px[i + 1].kind ELSE "range",
     need |-> need]
Deeper(hs) == [k \in 1..Len(hs) |-> [hs[k] EXCEPT !.depth = @ + 1]]
At(r, hs) == [r EXCEPT !.hops = hs]

\* resolve_simple_proxy without the `if let ... Utf8`: any slot in range resolves
resolve_simple_proxy_any_variant(i, px) ==
    At(IF i < Len(px) THEN Got(E("Utf8", px[i + 1].str, <<>>, <<>>, 0)) ELSE Link,
       <<Hop(i, px, "Utf8")>>)

resolve_simple_proxy(i, px) ==
    At(IF i < Len(px) /\ px[i + 1].kind = "Utf8"
       THEN Got(E("Utf8", px[i + 1].str, <<>>, <<>>, 0))
       ELSE Link,
       <<Hop(i, px, "Utf8")>>)

StringProxy_resolve(p, px) ==
    LET u == resolve_simple_proxy(p.i1, px)
    IN  At(IF u.ok THEN Got(E("String", u.v.a, <<>>, <<>>, 0)) ELSE Link, u.hops)

ClassProxy_resolve(p, px) ==
    At(IF p.i1 < Len(px) /\ px[p.i1 + 1].kind = "Utf8"
       THEN Got(E("Class", px[p.i1 + 1].str, <<>>, <<>>, 0))
       ELSE Link,
       <<Hop(p.i1, px, "Utf8")>>)

NameAndTypeProxy_resolve(p, px) ==
    LET n == resolve_simple_proxy(p.i1, px)
        d == resolve_simple_proxy(p.i2, px)
    IN  IF ~n.ok THEN At(Link, n.hops)
        ELSE IF ~d.ok THEN At(Link, n.hops \o d.hops)
        ELSE At(Got(E("NameAndType", n.v.a, d.v.a, <<>>, 0)), n.hops \o d.hops)

ProxyToProxyNameAndType_resolve(i, px) ==
    IF i < Len(px) /\ px[i + 1].kind = "NameAndType"
    THEN LET r == NameAndTypeProxy_resolve(px[i + 1], px)
         IN  At(r, <<Hop(i, px, "NameAndType")>> \o Deeper(r.hops))
    ELSE At(Link, <<Hop(i, px, "NameAndType")>>)

\* ProxyToProxyClass::resolve without the `if let ... Class`: the slot in range
\* is resolved as a ClassProxy whatever it holds
ProxyToProxyClass_resolve_any_variant(i, px) ==
    IF i < Len(px)
    THEN LET r == ClassProxy_resolve(px[i + 1], px)
         IN  At(r, <<Hop(i, px, "Class")>> \o Deeper(r.hops))
    ELSE At(Link, <<Hop(i, px, "Class")>>)

ProxyToProxyClass_resolve(i, px) ==
    IF i < Len(px) /\ px[i + 1].kind = "Class"
    THEN LET r == ClassProxy_resolve(px[i + 1], px)
         IN  At(r, <<Hop(i, px, "Class")>> \o Deeper(r.hops))
    ELSE At(Link, <<Hop(i, px, "Class")>>)

\* the ComponentRef, under the kind of the entry it is for
resolve_double_proxy(p, px, kind) ==
    LET c == ProxyToProxyClass_resolve(p.i1, px)
        t == ProxyToProxyNameAndType_resolve(p.i2, px)
    IN  IF ~(c.ok /\ c.v.kind = "Class") THEN At(Link, c.hops)
        ELSE IF ~(t.ok /\ t.v.kind = "NameAndType") THEN At(Link, c.hops \o t.hops)
        ELSE At(Got(E(kind, c.v.a, t.v.a, t.v.b, 0)), c.hops \o t.hops)

ProxyConstPoolType_resolve(p, px) ==
    CASE p.kind \in {"Utf8", "Int", "Float", "Long", "Double"} ->
             Got(E(p.kind, p.str, <<>>, <<>>, p.num))
      [] p.kind = "NameAndType" -> NameAndTypeProxy_resolve(p, px)
      [] p.kind = "FieldRef" -> resolve_double_proxy(p, px, "Field")
      [] p.kind = "MethodRef" -> resolve_double_proxy(p, px, "MethodRef")
      [] p.kind = "InterfaceMethodRef" -> resolve_double_proxy(p, px, "InterfaceMethodRef")
      [] p.kind = "String" -> StringProxy_resolve(p, px)
      [] p.kind = "Class" -> ClassProxy_resolve(p, px)

\* proxy.iter().map(|p| p.resolve(&proxy)).collect::<Result<Vec<_>, _>>(): the
\* entries are resolved in order up to the first Err.  hops is history: the
\* gets made for each entry resolved
ResolveAll(px) ==
    LET rs == [i \in 1..Len(px) |-> ProxyConstPoolType_resolve(px[i], px)]
        good == \A i \in 1..Len(px) : rs[i].ok
    IN  [ok |-> good,
         v |-> IF good THEN [i \in 1..Len(px) |-> rs[i].v] ELSE <<>>,
         hops |-> [i \in {j \in 1..Len(px) : \A k \in 1..(j - 1) : rs[k].ok} |-> rs[i].hops]]

(***************************************************************************)
(* The class body: outcomes and their sequencing.                          *)
(*                                                                         *)
(* An impl applied to a source yields a set of outcomes, one per source:   *)
(* [err, st, drs, words, flags] and, when err = "none", val.  drs, words   *)
(* and flags are history: the dereferences made (see Deref), the values of *)
(* the u8/u16/u32 fields read, and the access-flag words read, each with   *)
(* the enum it was read for and the flags made of it.  Then(outs, F) is    *)
(* the `?` of the code: the first error returns, otherwise F continues on  *)
(* the source the outcome left.                                            *)
(***************************************************************************)
Ok(st, v) ==
    [err |-> "none", st |-> st, drs |-> <<>>, words |-> <<>>, flags |-> <<>>, val |-> v]
Err(e, st) == [err |-> e, st |-> st, drs |-> <<>>, words |-> <<>>, flags |-> <<>>]

Then(outs, F(_)) ==
    UNION { IF o.err # "none" THEN {o}
            ELSE { [q EXCEPT !.drs = o.drs \o @, !.words = o.words \o @, !.flags = o.flags \o @]
                   : q \in F(o) }
            : o \in outs }

\* read_u8, read_u16, read_u32 of a field whose value is drawn from V
U(st, n, V) ==
    { IF r.ok THEN [Ok(r.st, r.val) EXCEPT !.words = <<r.val>>]
      ELSE Err("CannotRead", r.st)
      : r \in Rd(st, n, V) }

\* read_exact into a buffer of n bytes that is then dropped
Skip(st, n) ==
    IF n = 0 THEN {Ok(st, 0)}
    ELSE { IF r.ok THEN Ok(r.st, 0) ELSE Err("CannotRead", r.st)
           : r \in RdBytes(st, n, {Zeros(n)}) }

\* the values the fields of the class body hold
WordChoices == {1}                        \* versions, pcs, max_stack, max_local, ...
LenChoices == 0..MaxBody                  \* attribute_length, code_length
CountChoices(b) == 0..(IF b < MaxCount THEN b ELSE MaxCount)
BodyIdx(pl) == 0..(Len(pl) + 1)           \* 0, the slots of the pool, one past them

(***************************************************************************)
(* Access flags: enumflags2 BitFlags over the three flag enums.            *)
(***************************************************************************)
ClassAccess == {1, 16, 32, 512, 1024}
AccessSpecifier == {1, 2, 4, 8, 16, 64, 128}
ClassAccessSpecifier == {1, 2, 4, 8, 16, 64, 128}

AllBits == {2^i : i \in 0..15}
HasBit(w, b) == (w \div b) % 2 = 1

\* BitFlags::from_bits: [ok, flags]; not ok when a bit outside the enum is set
\* BitFlags::from_bits_truncate: the bits outside the enum are dropped
from_bits_truncate(w, enum) == [ok |-> TRUE, flags |-> {b \in enum : HasBit(w, b)}]

from_bits(w, enum) ==
    IF \E b \in AllBits \ enum : HasBit(w, b)
    THEN [ok |-> FALSE, flags |-> {}]
    ELSE [ok |-> TRUE, flags |-> {b \in enum : HasBit(w, b)}]

RECURSIVE bits(_)
\* BitFlags::bits: the word of a flag set
bits(flags) == IF flags = {} THEN 0 ELSE LET b == CHOOSE x \in flags : TRUE
                                         IN  b + bits(flags \ {b})

\* the access-flag words of the sources: for each enum a word of its bits, a
\* word of foreign bits, and a word mixing both
ClassWords == {33, 2, 35}
MemberWords == {9, 32, 41}
InnerWords == {65, 512, 577}

\* impl Deserializable for BitFlags<...>
BitFlags_deserialize(st, enum, W) ==
    { IF ~r.ok THEN Err("CannotRead", r.st)
      ELSE LET f == from_bits(r.val, enum)
               h == <<[of |-> enum, word |-> r.val, flags |-> f.flags]>>
           IN  IF f.ok THEN [Ok(r.st, f.flags) EXCEPT !.flags = h]
               ELSE [Err("Parsing", r.st) EXCEPT !.flags = h]
      : r \in Rd(st, 2, W) }

(***************************************************************************)
(* Handles into the resolved pool.                                         *)
(***************************************************************************)
\* what index idx (as read, 1-based) finds in pool pl
SlotKind(pl, idx) ==
    IF idx = 0 THEN "zero" ELSE IF idx > Len(pl) THEN "range" ELSE pl[idx].kind

\* history of one dereference: where, the index read, what the pool holds
\* there, what the impl made of it ("ok", "absent", "Link"), the handle made
Deref(ctx, pl, idx, out, h) ==
    [ctx |-> ctx, idx |-> idx, slot |-> SlotKind(pl, idx), out |-> out, h |-> h]

\* [err, st, idx, some, e]: Ok(None), Ok(Some(e)) or an error
find_const_pool_element(st, pl) ==
    { IF ~r.ok THEN [err |-> "CannotRead", st |-> r.st, idx |-> 0, some |-> FALSE, e |-> NoEntry]
      ELSE IF r.val = 0
      THEN [err |-> "none", st |-> r.st, idx |-> 0, some |-> FALSE, e |-> NoEntry]
      ELSE IF r.val - 1 < Len(pl)
      THEN [err |-> "none", st |-> r.st, idx |-> r.val, some |-> TRUE, e |-> pl[r.val]]
      ELSE [err |-> "Link", st |-> r.st, idx |-> r.val, some |-> FALSE, e |-> NoEntry]
      : r \in Rd(st, 2, BodyIdx(pl)) }

\* a deserialize_link without the match on the variant: any entry is taken
LinkTo_any_variant(st, pl, ctx, kinds) ==
    { IF f.err = "CannotRead" THEN Err("CannotRead", f.st)
      ELSE IF f.err = "Link" \/ ~f.some
      THEN [Err("Link", f.st) EXCEPT !.drs = <<Deref(ctx, pl, f.idx, "Link", <<>>)>>]
      ELSE [Ok(f.st, f.e) EXCEPT !.drs = <<Deref(ctx, pl, f.idx, "ok", f.e.a)>>]
      : f \in find_const_pool_element(st, pl) }

\* the match of a deserialize_link on the kinds it accepts; val is the entry
LinkTo(st, pl, ctx, kinds) ==
    { IF f.err = "CannotRead" THEN Err("CannotRead", f.st)
      ELSE IF f.err = "Link" \/ ~f.some \/ f.e.kind \notin kinds
      THEN [Err("Link", f.st) EXCEPT !.drs = <<Deref(ctx, pl, f.idx, "Link", <<>>)>>]
      ELSE [Ok(f.st, f.e) EXCEPT !.drs = <<Deref(ctx, pl, f.idx, "ok", f.e.a)>>]
      : f \in find_const_pool_element(st, pl) }

\* impl DeserializableLinked for Utf8Info: val is the string
Utf8Info_deserialize_link(st, pl, ctx) ==
    Then(LinkTo(st, pl, ctx, {"Utf8"}), LAMBDA f : {Ok(f.st, f.val.a)})

\* impl DeserializableLinked for ClassInfo: val is the class name
ClassInfo_deserialize_link(st, pl, ctx) ==
    Then(LinkTo(st, pl, ctx, {"Class"}), LAMBDA f : {Ok(f.st, f.val.a)})

\* ConstValueType::deserialize_link without the `_ => Err(Link)` arm: every
\* entry is taken as a constant
ConstValueType_deserialize_link_any_variant(st, pl, ctx) ==
    Then(LinkTo(st, pl, ctx, {pl[i].kind : i \in 1..Len(pl)}), LAMBDA f :
        {Ok(f.st, [kind |-> f.val.kind, a |-> f.val.a, num |-> f.val.num])})

\* impl DeserializableLinked for ConstValueType
ConstValueType_deserialize_link(st, pl, ctx) ==
    Then(LinkTo(st, pl, ctx, {"Long", "Int", "Float", "Double", "String"}), LAMBDA f :
        {Ok(f.st, [kind |-> f.val.kind, a |-> f.val.a, num |-> f.val.num])})

\* Option<ClassInfo>
None == [some |-> FALSE, name |-> <<>>]
Some(n) == [some |-> TRUE, name |-> n]

\* ClassInfo::deserialize_link(..) with `?` in place of .ok()
ClassInfo_deserialize_link_strict(st, pl, ctx) ==
    { IF o.err = "none" THEN [o EXCEPT !.val = Some(o.val)] ELSE o
      : o \in ClassInfo_deserialize_link(st, pl, ctx) }

\* ClassInfo::deserialize_link(..).ok(): every Err becomes None, and the source
\* stays where the failed read left it
ClassInfo_deserialize_link_ok(st, pl, ctx) ==
    { IF o.err = "none" THEN [o EXCEPT !.val = Some(o.val)]
      ELSE [Ok(o.st, None) EXCEPT
               !.drs = IF o.drs = <<>> THEN <<>>
                       ELSE <<[o.drs[1] EXCEPT !.out = "absent"]>>]
      : o \in ClassInfo_deserialize_link(st, pl, ctx) }

(***************************************************************************)
(* Attributes (class::attributes).  An attribute is a record with its      *)
(* kind and the fields of its struct.  b is the number of table entries    *)
(* the source may still declare.                                           *)
(***************************************************************************)
LineNumberEntry_deserialize(st) ==
    Then(U(st, 2, WordChoices), LAMBDA a :
    Then(U(a.st, 2, WordChoices), LAMBDA l :
        {Ok(l.st, [start_pc |-> a.val, line |-> l.val])}))

RECURSIVE LineNumberEntries(_, _)
\* (0..length).map(|_| LineNumberEntry::deserialize(&mut cursor)).collect()
LineNumberEntries(st, k) ==
    IF k = 0 THEN {Ok(st, <<>>)}
    ELSE Then(LineNumberEntry_deserialize(st), LAMBDA e :
         Then(LineNumberEntries(e.st, k - 1), LAMBDA r : {Ok(r.st, <<e.val>> \o r.val)}))

LineNumberTableAttribute_deserialize(st, b) ==
    Then(U(st, 4, LenChoices), LAMBDA l :
    Then(U(l.st, 2, CountChoices(b)), LAMBDA n :
    Then(LineNumberEntries(n.st, n.val), LAMBDA r :
        {Ok(r.st, [kind |-> "LineNumberTable", lines |-> r.val])})))

LocalVariableEntry_deserialize_link(st, pl) ==
    Then(U(st, 2, WordChoices), LAMBDA a :
    Then(U(a.st, 2, WordChoices), LAMBDA l :
    Then(Utf8Info_deserialize_link(l.st, pl, "local_name"), LAMBDA n :
    Then(Utf8Info_deserialize_link(n.st, pl, "local_descriptor"), LAMBDA d :
    Then(U(d.st, 2, WordChoices), LAMBDA i :
        {Ok(i.st, [start_pc |-> a.val, length |-> l.val, name |-> n.val,
                   descriptor |-> d.val, index |-> i.val])})))))

RECURSIVE LocalVariableEntries(_, _, _)
LocalVariableEntries(st, pl, k) ==
    IF k = 0 THEN {Ok(st, <<>>)}
    ELSE Then(LocalVariableEntry_deserialize_link(st, pl), LAMBDA e :
         Then(LocalVariableEntries(e.st, pl, k - 1), LAMBDA r :
             {Ok(r.st, <<e.val>> \o r.val)}))

LocalVariableTableAttribute_deserialize_link(st, pl, b) ==
    Then(U(st, 4, LenChoices), LAMBDA l :
    Then(U(l.st, 2, CountChoices(b)), LAMBDA n :
    Then(LocalVariableEntries(n.st, pl, n.val), LAMBDA r :
        {Ok(r.st, [kind |-> "LocalVariableTable", variables |-> r.val])})))

RECURSIVE ClassInfos(_, _, _, _)
\* (0..count).map(|_| ClassInfo::deserialize_link(&mut cursor, pool)).collect()
ClassInfos(st, pl, ctx, k) ==
    IF k = 0 THEN {Ok(st, <<>>)}
    ELSE Then(ClassInfo_deserialize_link(st, pl, ctx), LAMBDA e :
         Then(ClassInfos(e.st, pl, ctx, k - 1), LAMBDA r : {Ok(r.st, <<e.val>> \o r.val)}))

ExceptionsAttribute_deserialize_link(st, pl, b) ==
    Then(U(st, 4, LenChoices), LAMBDA l :
    Then(U(l.st, 2, CountChoices(b)), LAMBDA n :
    Then(ClassInfos(n.st, pl, "exception_class", n.val), LAMBDA r :
        {Ok(r.st, [kind |-> "Exceptions", exceptions_classes |-> r.val])})))

ClassEntry_deserialize_link(st, pl) ==
    Then(ClassInfo_deserialize_link_ok(st, pl, "inner_class"), LAMBDA i :
    Then(ClassInfo_deserialize_link_ok(i.st, pl, "outer_class"), LAMBDA o :
    Then(Utf8Info_deserialize_link(o.st, pl, "inner_name"), LAMBDA n :
    Then(BitFlags_deserialize(n.st, ClassAccessSpecifier, InnerWords), LAMBDA a :
        {Ok(a.st, [inner_class_info |-> i.val, outer_class_info |-> o.val,
                   name |-> n.val, access |-> a.val])}))))

RECURSIVE ClassEntries(_, _, _)
ClassEntries(st, pl, k) ==
    IF k = 0 THEN {Ok(st, <<>>)}
    ELSE Then(ClassEntry_deserialize_link(st, pl), LAMBDA e :
         Then(ClassEntries(e.st, pl, k - 1), LAMBDA r : {Ok(r.st, <<e.val>> \o r.val)}))

InnerClassesAttribute_deserialize_link(st, pl, b) ==
    Then(U(st, 4, LenChoices), LAMBDA l :
    Then(U(l.st, 2, CountChoices(b)), LAMBDA n :
    Then(ClassEntries(n.st, pl, n.val), LAMBDA r :
        {Ok(r.st, [kind |-> "InnerClasses", classes |-> r.val])})))

SourceFileAttribute_deserialize_link(st, pl) ==
    Then(U(st, 4, LenChoices), LAMBDA l :
    Then(Utf8Info_deserialize_link(l.st, pl, "source_file"), LAMBDA f :
        {Ok(f.st, [kind |-> "SourceFile", file |-> f.val])}))

\* ConstantValueAttribute::deserialize_link with the declared length
\* cross-checked against the two bytes of the body
ConstantValueAttribute_deserialize_link_checked(st, pl) ==
    Then(U(st, 4, LenChoices), LAMBDA l :
    Then(ConstValueType_deserialize_link(l.st, pl, "constant_value"), LAMBDA v :
        IF l.val # 2 THEN {Err("Parsing", v.st)}
        ELSE {Ok(v.st, [kind |-> "ConstantValue", value |-> v.val])}))

ConstantValueAttribute_deserialize_link(st, pl) ==
    Then(U(st, 4, LenChoices), LAMBDA l :
    Then(ConstValueType_deserialize_link(l.st, pl, "constant_value"), LAMBDA v :
        {Ok(v.st, [kind |-> "ConstantValue", value |-> v.val])}))

\* an UnknownAttribute that leaves its body in the source
UnknownAttribute_deserialize_no_skip(st) ==
    Then(U(st, 4, LenChoices), LAMBDA s : {Ok(s.st, [kind |-> "Unknown", size |-> s.val])})

UnknownAttribute_deserialize(st) ==
    Then(U(st, 4, LenChoices), LAMBDA s :
    Then(Skip(s.st, s.val), LAMBDA x :
        {Ok(x.st, [kind |-> "Unknown", size |-> s.val])}))

\* SyntheticAttribute::deserialize without the `if size != 0`
SyntheticAttribute_deserialize_any_size(st) ==
    Then(U(st, 4, LenChoices), LAMBDA s : {Ok(s.st, [kind |-> "Synthetic"])})

SyntheticAttribute_deserialize(st) ==
    Then(U(st, 4, LenChoices), LAMBDA s :
        IF s.val # 0 THEN {Err("Parsing", s.st)}
        ELSE {Ok(s.st, [kind |-> "Synthetic"])})

\* catch_type read the way super_class is: ClassInfo::deserialize_link(..).ok()
CatchType_ok(st, pl) ==
    { IF f.err = "CannotRead" THEN Ok(f.st, None)
      ELSE IF f.some /\ f.e.kind = "Class"
      THEN [Ok(f.st, Some(f.e.a)) EXCEPT
               !.drs = <<Deref("catch_type", pl, f.idx, "ok", f.e.a)>>]
      ELSE [Ok(f.st, None) EXCEPT !.drs = <<Deref("catch_type", pl, f.idx, "absent", <<>>)>>]
      : f \in find_const_pool_element(st, pl) }

\* catch_type: find_const_pool_element and the match on Some(value) / None
CatchType(st, pl) ==
    { IF f.err = "CannotRead" THEN Err("CannotRead", f.st)
      ELSE IF f.err = "Link"
      THEN [Err("Link", f.st) EXCEPT !.drs = <<Deref("catch_type", pl, f.idx, "Link", <<>>)>>]
      ELSE IF ~f.some
      THEN [Ok(f.st, None) EXCEPT !.drs = <<Deref("catch_type", pl, f.idx, "absent", <<>>)>>]
      ELSE IF f.e.kind = "Class"
      THEN [Ok(f.st, Some(f.e.a)) EXCEPT
               !.drs = <<Deref("catch_type", pl, f.idx, "ok", f.e.a)>>]
      ELSE [Err("Link", f.st) EXCEPT !.drs = <<Deref("catch_type", pl, f.idx, "Link", <<>>)>>]
      : f \in find_const_pool_element(st, pl) }

ExceptionEntry_deserialize_link(st, pl) ==
    Then(U(st, 2, WordChoices), LAMBDA s :
    Then(U(s.st, 2, WordChoices), LAMBDA e :
    Then(U(e.st, 2, WordChoices), LAMBDA h :
    Then(CatchType(h.st, pl), LAMBDA c :
        {Ok(c.st, [start_pc |-> s.val, end_pc |-> e.val, handler_pc |-> h.val,
                   catch_type |-> c.val])}))))

RECURSIVE ExceptionEntries(_, _, _)
ExceptionEntries(st, pl, k) ==
    IF k = 0 THEN {Ok(st, <<>>)}
    ELSE Then(ExceptionEntry_deserialize_link(st, pl), LAMBDA e :
         Then(ExceptionEntries(e.st, pl, k - 1), LAMBDA r : {Ok(r.st, <<e.val>> \o r.val)}))

RECURSIVE CodeBytes(_, _)
\* (0..code_length).map(|_| cursor.read_u8()).collect()
CodeBytes(st, k) ==
    IF k = 0 THEN {Ok(st, <<>>)}
    ELSE Then(U(st, 1, {0}), LAMBDA e :
         Then(CodeBytes(e.st, k - 1), LAMBDA r : {Ok(r.st, <<e.val>> \o r.val)}))

\* CodeAttribute::deserialize_link without the `if code_length == 0`
CodeAttribute_deserialize_link_any_length(st, pl, b) ==
    Then(U(st, 4, LenChoices), LAMBDA l :
    Then(U(l.st, 2, WordChoices), LAMBDA ms :
    Then(U(ms.st, 2, WordChoices), LAMBDA ml :
    Then(U(ml.st, 4, LenChoices), LAMBDA cl :
    Then(CodeBytes(cl.st, cl.val), LAMBDA c :
    Then(U(c.st, 2, CountChoices(b)), LAMBDA xl :
    Then(ExceptionEntries(xl.st, pl, xl.val), LAMBDA x :
    Then(U(x.st, 2, CountChoices(b - xl.val)), LAMBDA n :
        {Ok(n.st, [kind |-> "Code", max_stack |-> ms.val, max_local |-> ml.val,
                   code |-> c.val, exceptions |-> x.val, attributes |-> <<>>,
                   count |-> n.val])}))))))))

\* CodeAttribute::deserialize_link up to the attributes_count of its nested
\* table: val is the CodeAttribute with no nested attribute yet, and the count
CodeAttribute_deserialize_link(st, pl, b) ==
    Then(U(st, 4, LenChoices), LAMBDA l :
    Then(U(l.st, 2, WordChoices), LAMBDA ms :
    Then(U(ms.st, 2, WordChoices), LAMBDA ml :
    Then(U(ml.st, 4, LenChoices), LAMBDA cl :
        IF cl.val = 0 THEN {Err("Link", cl.st)}
        ELSE
    Then(CodeBytes(cl.st, cl.val), LAMBDA c :
    Then(U(c.st, 2, CountChoices(b)), LAMBDA xl :
    Then(ExceptionEntries(xl.st, pl, xl.val), LAMBDA x :
    Then(U(x.st, 2, CountChoices(b - xl.val)), LAMBDA n :
        {Ok(n.st, [kind |-> "Code", max_stack |-> ms.val, max_local |-> ml.val,
                   code |-> c.val, exceptions |-> x.val, attributes |-> <<>>,
                   count |-> n.val])}))))))))

\* impl DeserializableLinked for Attribute
Attribute_deserialize_link(st, pl, b) ==
    Then(Utf8Info_deserialize_link(st, pl, "attribute_name"), LAMBDA n :
        CASE n.val = N_Synthetic -> SyntheticAttribute_deserialize(n.st)
          [] n.val = N_SourceFile -> SourceFileAttribute_deserialize_link(n.st, pl)
          [] n.val = N_LineNumberTable -> LineNumberTableAttribute_deserialize(n.st, b)
          [] n.val = N_LocalVariableTable ->
                 LocalVariableTableAttribute_deserialize_link(n.st, pl, b)
          [] n.val = N_Deprecated -> {Ok(n.st, [kind |-> "Deprecated"])}
          [] n.val = N_InnerClasses -> InnerClassesAttribute_deserialize_link(n.st, pl, b)
          [] n.val = N_Exceptions -> ExceptionsAttribute_deserialize_link(n.st, pl, b)
          [] n.val = N_Code -> CodeAttribute_deserialize_link(n.st, pl, b)
          [] n.val = N_ConstantValue -> ConstantValueAttribute_deserialize_link(n.st, pl)
          [] OTHER -> UnknownAttribute_deserialize(n.st))

\* impl DeserializableLinked for CodeAttributes
CodeAttributes_deserialize_link(st, pl, b) ==
    Then(Utf8Info_deserialize_link(st, pl, "attribute_name"), LAMBDA n :
        CASE n.val = N_LineNumberTable -> LineNumberTableAttribute_deserialize(n.st, b)
          [] n.val = N_LocalVariableTable ->
                 LocalVariableTableAttribute_deserialize_link(n.st, pl, b)
          [] OTHER -> UnknownAttribute_deserialize(n.st))

\* the table entries an attribute holds, the nested attributes of Code included
Rows(a) ==
    CASE a.kind = "LineNumberTable" -> Len(a.lines)
      [] a.kind = "LocalVariableTable" -> Len(a.variables)
      [] a.kind = "Exceptions" -> Len(a.exceptions_classes)
      [] a.kind = "InnerClasses" -> Len(a.classes)
      [] a.kind = "Code" -> Len(a.exceptions) + a.count
      [] OTHER -> 0

\* impl DeserializableLinked for ComponentInfo, up to the attributes_count
ComponentInfo_deserialize_link(st, pl, b) ==
    Then(BitFlags_deserialize(st, AccessSpecifier, MemberWords), LAMBDA a :
    Then(Utf8Info_deserialize_link(a.st, pl, "name"), LAMBDA n :
    Then(Utf8Info_deserialize_link(n.st, pl, "descriptor"), LAMBDA d :
    Then(U(d.st, 2, CountChoices(b)), LAMBDA c :
        {Ok(c.st, [access |-> a.val, name |-> n.val, descriptor |-> d.val,
                   attributes |-> <<>>, count |-> c.val])}))))

\* the head of Class::deserialize without the comparison with 0xCAFEBABE
Class_magic_unchecked(st) ==
    { IF ~r.ok THEN Err("CannotRead", r.st) ELSE [Ok(r.st, r.val) EXCEPT !.words = r.val]
      : r \in RdBytes(st, 4, {Magic, NotMagic}) }

\* the head of Class::deserialize: read_u32 and the comparison with 0xCAFEBABE
Class_magic(st) ==
    { IF ~r.ok THEN Err("CannotRead", r.st)
      ELSE IF r.val # Magic THEN [Err("Parsing", r.st) EXCEPT !.words = r.val]
      ELSE [Ok(r.st, r.val) EXCEPT !.words = r.val]
      : r \in RdBytes(st, 4, {Magic, NotMagic}) }

ClassVersion_deserialize(st) ==
    Then(U(st, 2, {0}), LAMBDA mi :
    Then(U(mi.st, 2, {55}), LAMBDA ma :
        {Ok(ma.st, [minor |-> mi.val, major |-> ma.val])}))

(***************************************************************************)
(* The decoder as a state machine.                                         *)
(***************************************************************************)
NoClass ==
    [version |-> [minor |-> 0, major |-> 0], access |-> {}, this_class |-> <<>>,
     super_class |-> None, interfaces |-> <<>>, fields |-> <<>>, methods |-> <<>>,
     attributes |-> <<>>]
NoMember == [access |-> {}, name |-> <<>>, descriptor |-> <<>>, attributes |-> <<>>]
NoCode ==
    [kind |-> "Code", max_stack |-> 0, max_local |-> 0, code |-> <<>>,
     exceptions |-> <<>>, attributes |-> <<>>]

\* count: the u16 read at the head of the pool; slots: the pool entries still
\* to read; items: the table entries the source may still declare; members,
\* attrs, nested: the entries the running loops still have to read; where:
\* the table of the class being read ("fields", "methods", "attributes")
Left0 ==
    [count |-> 0, slots |-> 0, items |-> MaxItems, members |-> 0, attrs |-> 0,
     nested |-> 0, where |-> ""]

\* history of the impl that ran last: which, where in the source it started,
\* the dereferences it made, the fields and flag words it read, its value
Last0 == [op |-> "", from |-> 0, drs |-> <<>>, words |-> <<>>, flags |-> <<>>, val |-> <<>>]
Last(op, o) ==
    [op |-> op, from |-> stream.pos, drs |-> o.drs, words |-> o.words, flags |-> o.flags,
     val |-> IF o.err = "none" THEN o.val ELSE <<>>]

Init ==
    /\ pc = "magic"
    /\ stream = Stream0
    /\ left = Left0
    /\ proxy = <<>>
    /\ pool = <<>>
    /\ cls = NoClass
    /\ member = NoMember
    /\ code = NoCode
    /\ result = "none"
    /\ last = Last0

\* the `?` that returns from deserializable_class: nothing built so far is kept
Fail(e, st, l) ==
    /\ pc' = "done"
    /\ result' = e
    /\ stream' = st
    /\ last' = l
    /\ left' = Left0
    /\ proxy' = <<>>
    /\ pool' = <<>>
    /\ cls' = NoClass
    /\ member' = NoMember
    /\ code' = NoCode

\* the impl applied to the source: an error returns, a value goes on with Go
Run(op, outs, Go(_)) ==
    \E o \in outs :
        IF o.err # "none" THEN Fail(o.err, o.st, Last(op, o))
        ELSE /\ stream' = o.st
             /\ last' = Last(op, o)
             /\ Go(o)

ReadMagic ==
    /\ pc = "magic"
    /\ Run("magic", Class_magic(stream), LAMBDA o :
          /\ pc' = "version"
          /\ UNCHANGED <<left, proxy, pool, cls, member, code, result>>)

ReadVersion ==
    /\ pc = "version"
    /\ Run("version", ClassVersion_deserialize(stream), LAMBDA o :
          /\ cls' = [cls EXCEPT !.version = o.val]
          /\ pc' = "pool"
          /\ UNCHANGED <<left, proxy, pool, member, code, result>>)

\* the head of Vec<ConstPoolType>::deserialize: read_u16()? - 1 on a u16.  On
\* a count of 0 the subtraction overflows: a build with overflow checks
\* panics, a build without them wraps to 65535
PoolCounts == 0..(LongestShape + 1)

ReadPoolCount ==
    /\ pc = "pool"
    /\ \/ Run("pool", U(stream, 2, PoolCounts \ {0}), LAMBDA o :
             /\ left' = [left EXCEPT !.count = o.val, !.slots = o.val - 1]
             /\ pc' = IF o.val = 1 THEN "resolve" ELSE "entry"
             /\ UNCHANGED <<proxy, pool, cls, member, code, result>>)
       \/ \E r \in {x \in Rd(stream, 2, {0}) : x.ok} :
             /\ stream' = r.st
             /\ last' = Last("pool", [Ok(r.st, 0) EXCEPT !.words = <<0>>])
             /\ left' = [left EXCEPT !.count = 0, !.slots = 65535]
             /\ pc' = "entry"
             /\ UNCHANGED <<proxy, pool, cls, member, code, result>>
       \/ \E r \in {x \in Rd(stream, 2, {0}) : x.ok} :
             /\ pc' = "done"
             /\ result' = "panic"
             /\ stream' = r.st
             /\ last' = Last("pool", [Ok(r.st, 0) EXCEPT !.words = <<0>>])
             /\ UNCHANGED <<left, proxy, pool, cls, member, code>>

ReadPoolEntry ==
    /\ pc = "entry"
    /\ \E o \in ProxyConstPoolType_deserialize(stream, TagChoices(proxy),
                                               IdxChoices(Len(proxy) + left.slots),
                                               Payloads(Len(proxy) + left.slots)) :
          IF o.err # "none"
          THEN Fail(o.err, o.st,
                    [Last0 EXCEPT !.op = "entry", !.from = stream.pos, !.words = o.raws])
          ELSE /\ stream' = o.st
               /\ last' = [Last0 EXCEPT !.op = "entry", !.from = stream.pos,
                                         !.words = o.raws, !.val = o.val]
               /\ proxy' = Append(proxy, o.val)
               /\ left' = [left EXCEPT !.slots = @ - 1]
               /\ pc' = IF left.slots = 1 THEN "resolve" ELSE "entry"
               /\ UNCHANGED <<pool, cls, member, code, result>>

\* pass 2 of Vec<ConstPoolType>::deserialize.  The proxies stay in proxy as
\* history, and last.val holds the gets made for each entry resolved
ResolvePool ==
    /\ pc = "resolve"
    /\ LET r == ResolveAll(proxy)
           l == [Last0 EXCEPT !.op = "resolve", !.from = stream.pos, !.val = r.hops]
       IN  IF ~r.ok THEN Fail("Link", stream, l)
           ELSE /\ pool' = r.v
                /\ last' = l
                /\ pc' = "access"
                /\ UNCHANGED <<stream, left, proxy, cls, member, code, result>>

ReadAccess ==
    /\ pc = "access"
    /\ Run("access", BitFlags_deserialize(stream, ClassAccess, ClassWords), LAMBDA o :
          /\ cls' = [cls EXCEPT !.access = o.val]
          /\ pc' = "this_class"
          /\ UNCHANGED <<left, proxy, pool, member, code, result>>)

ReadThisClass ==
    /\ pc = "this_class"
    /\ Run("this_class", ClassInfo_deserialize_link(stream, pool, "this_class"), LAMBDA o :
          /\ cls' = [cls EXCEPT !.this_class = o.val]
          /\ pc' = "super_class"
          /\ UNCHANGED <<left, proxy, pool, member, code, result>>)

ReadSuperClass ==
    /\ pc = "super_class"
    /\ Run("super_class", ClassInfo_deserialize_link_ok(stream, pool, "super_class"),
           LAMBDA o :
          /\ cls' = [cls EXCEPT !.super_class = o.val]
          /\ pc' = "interfaces"
          /\ UNCHANGED <<left, proxy, pool, member, code, result>>)

\* impl DeserializableLinked for Vec<ClassInfo>
ReadInterfaces ==
    /\ pc = "interfaces"
    /\ Run("interfaces",
           Then(U(stream, 2, CountChoices(left.items)), LAMBDA n :
               ClassInfos(n.st, pool, "interface", n.val)),
           LAMBDA o :
          /\ cls' = [cls EXCEPT !.interfaces = o.val]
          /\ left' = [left EXCEPT !.items = @ - Len(o.val), !.where = "fields"]
          /\ pc' = "components"
          /\ UNCHANGED <<proxy, pool, member, code, result>>)

\* where the decoder goes once the attribute list it is in has l.attrs entries
\* left, with the class c and the component m as built so far
Continue(c, m, l) ==
    IF l.attrs > 0 THEN [pc |-> "attribute", cls |-> c, member |-> m, left |-> l]
    ELSE IF l.where = "attributes"
    THEN [pc |-> "done", cls |-> c, member |-> m, left |-> l]
    ELSE LET c2 == IF l.where = "fields" THEN [c EXCEPT !.fields = Append(@, m)]
                   ELSE [c EXCEPT !.methods = Append(@, m)]
         IN  IF l.members > 1
             THEN [pc |-> "component", cls |-> c2, member |-> NoMember,
                   left |-> [l EXCEPT !.members = @ - 1]]
             ELSE [pc |-> "components", cls |-> c2, member |-> NoMember,
                   left |-> [l EXCEPT !.members = 0,
                                      !.where = IF l.where = "fields" THEN "methods"
                                                ELSE "attributes"]]

Goto(n) ==
    /\ pc' = n.pc
    /\ cls' = n.cls
    /\ member' = n.member
    /\ left' = n.left
    /\ result' = IF n.pc = "done" THEN "ok" ELSE result

\* the count of Vec<ComponentInfo> (fields, then methods) and of the class's
\* Vec<Attribute>
ReadCount ==
    /\ pc = "components"
    /\ Run(left.where, U(stream, 2, CountChoices(left.items)), LAMBDA o :
          /\ IF left.where = "attributes"
             THEN Goto(Continue(cls, member, [left EXCEPT !.items = @ - o.val,
                                                          !.attrs = o.val]))
             ELSE IF o.val > 0
             THEN Goto([pc |-> "component", cls |-> cls, member |-> member,
                        left |-> [left EXCEPT !.items = @ - o.val, !.members = o.val]])
             ELSE Goto([pc |-> "components", cls |-> cls, member |-> member,
                        left |-> [left EXCEPT !.where = IF left.where = "fields"
                                                        THEN "methods" ELSE "attributes"]])
          /\ UNCHANGED <<proxy, pool, code>>)

ReadComponent ==
    /\ pc = "component"
    /\ Run("component", ComponentInfo_deserialize_link(stream, pool, left.items), LAMBDA o :
          /\ Goto(Continue(cls,
                           [access |-> o.val.access, name |-> o.val.name,
                            descriptor |-> o.val.descriptor, attributes |-> <<>>],
                           [left EXCEPT !.items = @ - o.val.count, !.attrs = o.val.count]))
          /\ UNCHANGED <<proxy, pool, code>>)

\* the attribute a goes to the list being read: the component's or the class's
Attach(a, rows) ==
    LET l == [left EXCEPT !.attrs = @ - 1, !.items = @ - rows]
    IN  IF left.where = "attributes"
        THEN Continue([cls EXCEPT !.attributes = Append(@, a)], member, l)
        ELSE Continue(cls, [member EXCEPT !.attributes = Append(@, a)], l)

StripCount(a) ==
    [kind |-> "Code", max_stack |-> a.max_stack, max_local |-> a.max_local,
     code |-> a.code, exceptions |-> a.exceptions, attributes |-> a.attributes]

ReadAttribute ==
    /\ pc = "attribute"
    /\ Run("attribute", Attribute_deserialize_link(stream, pool, left.items), LAMBDA o :
          IF o.val.kind = "Code" /\ o.val.count > 0
          THEN /\ code' = StripCount(o.val)
               /\ left' = [left EXCEPT !.items = @ - Rows(o.val), !.nested = o.val.count]
               /\ pc' = "code_attribute"
               /\ UNCHANGED <<proxy, pool, cls, member, result>>
          ELSE /\ Goto(Attach(IF o.val.kind = "Code" THEN StripCount(o.val) ELSE o.val,
                           Rows(o.val)))
               /\ UNCHANGED <<proxy, pool, code>>)

ReadCodeAttribute ==
    /\ pc = "code_attribute"
    /\ Run("code_attribute", CodeAttributes_deserialize_link(stream, pool, left.items),
           LAMBDA o :
          LET c == [code EXCEPT !.attributes = Append(@, o.val)]
          IN  IF left.nested > 1
              THEN /\ code' = c
                   /\ left' = [left EXCEPT !.nested = @ - 1, !.items = @ - Rows(o.val)]
                   /\ UNCHANGED <<pc, proxy, pool, cls, member, result>>
              ELSE /\ code' = NoCode
                   /\ Goto(LET l == [left EXCEPT !.attrs = @ - 1, !.nested = 0,
                                                 !.items = @ - Rows(o.val)]
                           IN  IF left.where = "attributes"
                               THEN Continue([cls EXCEPT !.attributes = Append(@, c)],
                                             member, l)
                               ELSE Continue(cls, [member EXCEPT !.attributes = Append(@, c)],
                                             l))
                   /\ UNCHANGED <<proxy, pool>>)

Next ==
    \/ ReadMagic
    \/ ReadVersion
    \/ ReadPoolCount
    \/ ReadPoolEntry
    \/ ResolvePool
    \/ ReadAccess
    \/ ReadThisClass
    \/ ReadSuperClass
    \/ ReadInterfaces
    \/ ReadCount
    \/ ReadComponent
    \/ ReadAttribute
    \/ ReadCodeAttribute

Spec == Init /\ [][Next]_vars

(***************************************************************************)
(* Properties of the decoder.                                              *)
(***************************************************************************)
Decoded == pc = "done" /\ result = "ok"
Running == result \in {"none", "ok"}

Range(s) == {s[i] : i \in 1..Len(s)}
Newest(s) == IF s = <<>> THEN {} ELSE {s[Len(s)]}

IndexKinds == {"Class", "String", "NameAndType", "FieldRef", "MethodRef", "InterfaceMethodRef"}
RefKinds == {"FieldRef", "MethodRef", "InterfaceMethodRef"}
TwoIndexKinds == RefKinds \cup {"NameAndType"}

\* the indices (1-based, as in the source) that the proxy p holds
IndicesOf(p) ==
    IF p.kind \in TwoIndexKinds THEN {p.i1 + 1, p.i2 + 1}
    ELSE IF p.kind \in IndexKinds THEN {p.i1 + 1}
    ELSE {}

\* the variants the entry named at ctx must have
Required(ctx) ==
    CASE ctx \in {"this_class", "super_class", "interface", "exception_class",
                  "inner_class", "outer_class", "catch_type"} -> {"Class"}
      [] ctx = "constant_value" -> {"Int", "Float", "Long", "Double", "String"}
      [] OTHER -> {"Utf8"}

\* the payloads of the pool entries of a variant
Names(kind) == {pool[i].a : i \in {j \in 1..Len(pool) : pool[j].kind = kind}}

\* entry i of the pool was resolved from slots of the variants its kind requires
ProxyShaped(i) ==
    LET p == proxy[i]
        e == pool[i]
        In(k) == k + 1 \in 1..Len(proxy)
    IN  CASE p.kind \in {"String", "Class"} ->
                 /\ In(p.i1) /\ proxy[p.i1 + 1].kind = "Utf8" /\ pool[p.i1 + 1].kind = "Utf8"
                 /\ e.kind = p.kind /\ e.a = pool[p.i1 + 1].a
          [] p.kind = "NameAndType" ->
                 /\ In(p.i1) /\ proxy[p.i1 + 1].kind = "Utf8" /\ pool[p.i1 + 1].kind = "Utf8"
                 /\ In(p.i2) /\ proxy[p.i2 + 1].kind = "Utf8" /\ pool[p.i2 + 1].kind = "Utf8"
                 /\ e.kind = p.kind /\ e.a = pool[p.i1 + 1].a /\ e.b = pool[p.i2 + 1].a
          [] p.kind \in RefKinds ->
                 /\ In(p.i1) /\ proxy[p.i1 + 1].kind = "Class" /\ pool[p.i1 + 1].kind = "Class"
                 /\ In(p.i2) /\ proxy[p.i2 + 1].kind = "NameAndType"
                 /\ pool[p.i2 + 1].kind = "NameAndType"
                 /\ e.kind \in {"Field", "MethodRef", "InterfaceMethodRef"}
                 /\ e.a = pool[p.i1 + 1].a /\ e.b = pool[p.i2 + 1].a /\ e.c = pool[p.i2 + 1].b
          [] OTHER -> e.kind = p.kind

\* C1: in every decoded class each String and Class entry was resolved from a
\* Utf8 slot, each NameAndType from two Utf8 slots, each FieldRef, MethodRef
\* and InterfaceMethodRef from a Class slot and a NameAndType slot; this_class,
\* the interfaces and the member names and descriptors are payloads of slots
\* of the required variant, and every handle the decoder makes (attribute
\* names included) is made from a slot of the variant required where it is
\* made and carries that slot's payload.
C1_RequiredShapes ==
    /\ Decoded =>
          /\ Len(pool) = Len(proxy)
          /\ \A i \in 1..Len(pool) : ProxyShaped(i)
          /\ cls.this_class \in Names("Class")
          /\ \A c \in Range(cls.interfaces) : c \in Names("Class")
          /\ \A m \in Range(cls.fields) \cup Range(cls.methods) :
                m.name \in Names("Utf8") /\ m.descriptor \in Names("Utf8")
    /\ Running =>
          \A d \in Range(last.drs) :
             d.out = "ok" => d.slot \in Required(d.ctx) /\ d.h = pool[d.idx].a

\* a decoded class with a resolved FieldRef/MethodRef/InterfaceMethodRef in its
\* pool, a member, and a class attribute whose name was just dereferenced
C1_DecodedWithRefAndMember ==
    /\ Decoded
    /\ \E i \in 1..Len(proxy) : proxy[i].kind \in RefKinds
    /\ Len(cls.fields) + Len(cls.methods) > 0
    /\ \E d \in Range(last.drs) : d.ctx = "attribute_name" /\ d.out = "ok"

\* C2: no decoded class holds a pool entry whose index names the slot after a
\* Long or Double (slot i+1 for a Long or Double read at i).
C2_SlotAfterLongUnreferenced ==
    Decoded =>
       \A i \in 1..Len(proxy) :
          proxy[i].kind \in {"Long", "Double"} =>
             \A j \in 1..Len(proxy) : i + 1 \notin IndicesOf(proxy[j])

\* C3: once the source has ended inside a read, the decode returns CannotRead
\* (stream.cut: the Utf8 payload that the source held where it ended is valid).
C3_TruncationIsCannotRead ==
    (pc = "done" /\ stream.eof /\ from_utf8(stream.cut)) => result = "CannotRead"

\* the places where the index must not be zero
NonzeroRequired ==
    {"this_class", "interface", "name", "descriptor", "attribute_name", "source_file",
     "local_name", "local_descriptor", "exception_class"}

\* the index of the dereference d is out of range, zero where it must not be,
\* or names an entry of the wrong variant
Bad(d) ==
    \/ d.slot = "range"
    \/ d.slot = "zero" /\ d.ctx \in NonzeroRequired
    \/ d.slot \notin {"zero", "range"} /\ d.slot \notin Required(d.ctx)

\* the places where the decoder applies .ok() to the handle
Lenient == {"super_class", "inner_class", "outer_class"}

\* some index of the proxies px is out of range or names a slot of the wrong variant
BadProxies(px) ==
    \E i \in 1..Len(px) :
       LET p == px[i]
           Is(k, kind) == k < Len(px) /\ px[k + 1].kind = kind
       IN  \/ p.kind \in {"String", "Class"} /\ ~Is(p.i1, "Utf8")
           \/ p.kind = "NameAndType" /\ ~(Is(p.i1, "Utf8") /\ Is(p.i2, "Utf8"))
           \/ p.kind \in RefKinds /\ ~(Is(p.i1, "Class") /\ Is(p.i2, "NameAndType"))

\* C4, as stated: every index read in the class body that is out of range,
\* zero where a nonzero index is required, or names an entry of the wrong
\* variant makes the decode fail with Link.
C4_EveryBadIndexIsLink ==
    \A d \in Range(last.drs) : Bad(d) => result = "Link"

\* the handles of the class body: a bad index fails with Link where it is
\* dereferenced, except under .ok(), where it is decoded as absent; a zero
\* index of a pool entry fails with Link where it is read
BadIndexWhereDereferenced ==
    /\ \A i \in 1..Len(last.drs) :
          LET d == last.drs[i]
          IN  Bad(d) => IF d.ctx \in Lenient
                        THEN d.out = "absent" /\ (result = "Link" => i < Len(last.drs))
                        ELSE /\ pc = "done" /\ result = "Link"
                             /\ d.out = "Link" /\ i = Len(last.drs)
    /\ (last.op = "entry" /\ 0 \in Range(last.words)) => pc = "done" /\ result = "Link"

\* pass 2 fails, with Link, exactly when an index of a pool entry is out of
\* range or names a slot of the wrong variant
BadProxyIsLink ==
    pc = "resolve" =>
       IF BadProxies(proxy) THEN pc' = "done" /\ result' = "Link"
       ELSE pc' = "access" /\ result' = "none"

\* C4, amended: a bad index fails the decode with Link at the point where it
\* is dereferenced (zero pool-entry indices when read, the other pool-entry
\* indices in pass 2, body indices when read), except at super_class and at
\* the inner_class_info and outer_class_info of an InnerClasses entry, where
\* it is decoded as absent and the decode goes on.
C4_BadIndexIsLinkWhereDereferenced ==
    []BadIndexWhereDereferenced /\ [][BadProxyIsLink]_vars

\* a member whose descriptor index is out of range has failed the decode with Link
C4_MemberIndexOutOfRange ==
    /\ last.op = "component" /\ result = "Link"
    /\ \E d \in Range(last.drs) : d.ctx = "descriptor" /\ d.slot = "range"

\* C5: the decode never panics and never reads more pool entries than the
\* count at the head of the pool allows; it ends with the class or with one
\* of the four typed errors, and a failed decode exposes nothing of the class.
C5_TypedResultOrClass ==
    /\ result \in {"none", "ok", "CannotRead", "Parsing", "Link", "Encoding"}
    /\ pc = "entry" => left.slots < left.count
    /\ (pc = "done" /\ result # "ok") => cls = NoClass /\ pool = <<>>

\* C6: when the first four bytes are not 0xCAFEBABE the decode has ended with
\* Parsing, no class and no pool, and the source stands right after the four
\* bytes: nothing after the magic was read.
C6_BadMagicIsParsing ==
    (last.op = "magic" /\ Len(last.words) = 4 /\ last.words # Magic) =>
       /\ pc = "done" /\ result = "Parsing"
       /\ stream.pos = 4 /\ ~stream.eof
       /\ cls = NoClass /\ pool = <<>> /\ proxy = <<>>

\* four bytes other than the magic have been read
C6_OtherMagicRead ==
    last.op = "magic" /\ last.words = NotMagic /\ result = "Parsing"

RECURSIVE FileIndex(_, _)
\* the class-file index of entry i of the proxies px: a Long or Double takes
\* two indices, every other entry one
FileIndex(px, i) ==
    IF i = 1 THEN 1
    ELSE FileIndex(px, i - 1) + (IF px[i - 1].kind \in {"Long", "Double"} THEN 2 ELSE 1)

\* C7: the pool of a decoded class has count - 1 slots and every entry sits at
\* its class-file index.
C7_EntriesAtFileIndex ==
    Decoded =>
       /\ Len(pool) = left.count - 1
       /\ \A i \in 1..Len(pool) : FileIndex(proxy, i) = i

\* the flag sets of the class-file format
ClassFlagBits == {1, 16, 32, 512, 1024}
MemberFlagBits == {1, 2, 4, 8, 16, 64, 128}
InnerFlagBits == {1, 2, 4, 8, 16, 64, 128}
FlagBitsAt(op) ==
    CASE op = "access" -> ClassFlagBits
      [] op = "component" -> MemberFlagBits
      [] OTHER -> InnerFlagBits

\* C8: a flags word with a bit outside the set of its place (class, member,
\* inner class) has failed the decode with Parsing; every other word was
\* decoded to a flag set within that set whose bits are the word read, and
\* that set is the one the class, the member or the inner-class entry holds.
C8_FlagsWithinTheirSet ==
    /\ \A i \in 1..Len(last.flags) :
          LET r == last.flags[i]
              A == FlagBitsAt(last.op)
          IN  /\ r.of = A
              /\ IF \E b \in AllBits \ A : HasBit(r.word, b)
                 THEN pc = "done" /\ result = "Parsing" /\ i = Len(last.flags)
                 ELSE r.flags \subseteq A /\ bits(r.flags) = r.word
    /\ (last.op = "access" /\ Running) => cls.access = last.flags[1].flags
    /\ (last.op = "component" /\ Running) => last.val.access = last.flags[1].flags
    /\ (last.op = "attribute" /\ Running /\ last.flags # <<>>) =>
          /\ last.val.kind = "InnerClasses"
          /\ Len(last.val.classes) = Len(last.flags)
          /\ \A i \in 1..Len(last.flags) : last.val.classes[i].access = last.flags[i].flags

\* an inner-class flags word with a bit outside its set has been read
C8_InnerWordWithForeignBit ==
    /\ last.op = "attribute" /\ last.flags # <<>>
    /\ \E b \in AllBits \ InnerFlagBits : HasBit(last.flags[Len(last.flags)].word, b)

\* the names recognized at class and member level, and inside Code
RecognizedNames ==
    {N_Code, N_Synthetic, N_SourceFile, N_LineNumberTable, N_LocalVariableTable,
     N_Deprecated, N_InnerClasses, N_Exceptions, N_ConstantValue}
RecognizedInCode == {N_LineNumberTable, N_LocalVariableTable}

\* the attributes decoded last at each level of the class being built
NewestAttributes ==
    Newest(cls.attributes) \cup Newest(member.attributes)
    \cup UNION {Newest(m.attributes) : m \in Newest(cls.fields) \cup Newest(cls.methods)}
NewestInCode ==
    Newest(code.attributes)
    \cup UNION {Newest(a.attributes) : a \in {x \in NewestAttributes : x.kind = "Code"}}

\* C9: an attribute whose name is not recognized at its level is decoded to
\* an Unknown whose size is the declared length, the class being built holds
\* it, and the source stands at the first byte after its body: name index,
\* length and exactly size body bytes were consumed.
C9_UnknownKeepsLengthAndSkipsBody ==
    (/\ last.op \in {"attribute", "code_attribute"} /\ Running
     /\ last.drs[1].h \notin (IF last.op = "attribute" THEN RecognizedNames
                              ELSE RecognizedInCode)) =>
       /\ last.val.kind = "Unknown"
       /\ last.val.size = last.words[1]
       /\ stream.pos = last.from + 2 + 4 + last.val.size
       /\ last.val \in (IF last.op = "attribute" THEN NewestAttributes ELSE NewestInCode)

\* a Code attribute nested in a Code attribute has been decoded as an Unknown
\* with a body
C9_NestedCodeIsUnknown ==
    /\ last.op = "code_attribute" /\ Running
    /\ last.drs[1].h = N_Code
    /\ last.val.kind = "Unknown" /\ last.val.size > 0

\* C10: a super_class index that is 0, out of range or names an entry that is
\* not a Class is decoded as no super class; two bytes were consumed and the
\* decode goes on with the interfaces.  An index that names a Class is
\* decoded to that class.
C10_SuperClassFailureIsNone ==
    (last.op = "super_class" /\ last.drs # <<>>) =>
       LET d == last.drs[1]
       IN  /\ pc = "interfaces" /\ result = "none"
           /\ stream.pos = last.from + 2
           /\ IF d.slot = "Class" THEN cls.super_class = Some(pool[d.idx].a)
              ELSE cls.super_class = None /\ d.out = "absent"

\* a nonzero super_class index that names no Class has been read
C10_SuperClassNamesNoClass ==
    /\ last.op = "super_class" /\ last.drs # <<>>
    /\ last.drs[1].slot \notin {"zero", "Class"}
    /\ pc = "interfaces"

\* the impl that ran last is the attribute dispatch at class or member level
\* and the name it dereferenced is n
AttributeNamed(n) ==
    /\ last.op = "attribute"
    /\ last.drs # <<>> /\ last.drs[1].out = "ok" /\ last.drs[1].h = n

\* the code_length the Code attribute read last found (the fourth field after
\* the name: attribute_length, max_stack, max_local, code_length)
CodeLengthRead == AttributeNamed(N_Code) /\ Len(last.words) >= 4

\* C11: a Code attribute whose code_length is 0 has failed the decode with
\* Link, right after the code_length; a Code attribute with another
\* code_length fails with Link only at a handle of its exception table.
C11_ZeroCodeLengthIsLink ==
    CodeLengthRead =>
       IF last.words[4] = 0
       THEN /\ pc = "done" /\ result = "Link"
            /\ Len(last.words) = 4 /\ Len(last.drs) = 1
            /\ stream.pos = last.from + 2 + 4 + 2 + 2 + 4
       ELSE result = "Link" => Len(last.drs) > 1 /\ last.drs[Len(last.drs)].out = "Link"

\* a Code attribute with code_length 0 has been read
C11_CodeLengthZeroRead ==
    CodeLengthRead /\ last.words[4] = 0 /\ pc = "done"

\* C12: a Code attribute whose code_length is 0 has failed the decode with
\* Parsing.
C12_ZeroCodeLengthIsParsing ==
    (CodeLengthRead /\ last.words[4] = 0) => pc = "done" /\ result = "Parsing"

\* the variants a ConstantValue may name
ConstantKinds == {"Int", "Float", "Long", "Double", "String"}

\* C13: a ConstantValue attribute whose index names an Integer, Float, Long,
\* Double or String entry is decoded, carries that entry's variant and value
\* and is held by the class being built, two bytes after its length; with an
\* index of 0, an index out of range or an entry of any other variant the
\* decode has failed with Link.
C13_ConstantValueNamesConstant ==
    (AttributeNamed(N_ConstantValue) /\ Len(last.drs) >= 2) =>
       LET d == last.drs[2]
       IN  /\ d.ctx = "constant_value" /\ Len(last.drs) = 2
           /\ IF d.slot \in ConstantKinds
              THEN /\ Running /\ d.out = "ok"
                   /\ last.val.kind = "ConstantValue"
                   /\ last.val.value = [kind |-> pool[d.idx].kind, a |-> pool[d.idx].a,
                                        num |-> pool[d.idx].num]
                   /\ last.val \in NewestAttributes
                   /\ stream.pos = last.from + 2 + 4 + 2
              ELSE pc = "done" /\ result = "Link" /\ d.out = "Link"

\* a ConstantValue attribute that names a NameAndType entry has been read
C13_ConstantValueNamesNameAndType ==
    /\ AttributeNamed(N_ConstantValue) /\ Len(last.drs) >= 2
    /\ last.drs[2].slot = "NameAndType" /\ result = "Link"

\* C14: a Synthetic attribute, of the class or of a member, whose declared
\* length is 0 is decoded and held by the class being built, the source
\* standing right after the length; with any other declared length the decode
\* has failed with Parsing.
C14_SyntheticIffZeroLength ==
    (AttributeNamed(N_Synthetic) /\ last.words # <<>>) =>
       /\ Len(last.words) = 1
       /\ stream.pos = last.from + 2 + 4
       /\ IF last.words[1] = 0
          THEN /\ Running
               /\ last.val = [kind |-> "Synthetic"]
               /\ last.val \in NewestAttributes
          ELSE pc = "done" /\ result = "Parsing"

\* a Synthetic attribute with a nonzero declared length has been read
C14_SyntheticNonzeroRead ==
    /\ AttributeNamed(N_Synthetic) /\ last.words # <<>>
    /\ last.words[1] > 0 /\ pc = "done"

\* C15: after a Deprecated attribute has been decoded the source stands at
\* the first byte after the attribute: the name index and the u32 length
\* have been consumed, so that what follows is read from its own first byte.
C15_DeprecatedConsumesLength ==
    (AttributeNamed(N_Deprecated) /\ Running) =>
       /\ last.val.kind = "Deprecated"
       /\ stream.pos = last.from + 2 + 4

\* C16: whenever a Utf8 pool entry has been decoded and the source has not
\* ended, tag, length prefix and the n declared payload bytes have been
\* consumed, however the source split its reads: no payload byte is left in
\* the source, and the next tag is read from the byte after the payload.
C16_Utf8ConsumesDeclaredLength ==
    (last.op = "entry" /\ result = "none" /\ last.val.kind = "Utf8" /\ ~stream.eof) =>
       /\ stream.pos = last.from + 1 + 2 + Len(last.val.str)
       /\ stream.pend = <<>>

\* C17: in an InnerClasses entry a zero inner_class_index or
\* outer_class_index is decoded as absent; a nonzero one that is out of range
\* or names an entry that is not a Class has failed the decode with Link; an
\* inner_name_index that is zero or names no Utf8 has failed it with Link
\* (in every state where the source has not ended).
C17_InnerClassIndices ==
    ~stream.eof =>
    \A i \in 1..Len(last.drs) :
       LET d == last.drs[i]
       IN  /\ d.ctx \in {"inner_class", "outer_class"} =>
                 /\ d.slot = "zero" => d.out = "absent"
                 /\ d.slot = "Class" => d.out = "ok"
                 /\ d.slot \notin {"zero", "Class"} => pc = "done" /\ result = "Link"
           /\ (d.ctx = "inner_name" /\ d.slot # "Utf8") => pc = "done" /\ result = "Link"

\* the catch_type dereferences of the impl that ran last, in order
CatchTypesRead == SelectSeq(last.drs, LAMBDA d : d.ctx = "catch_type")

\* C18: a catch_type index of 0 is decoded as absent and a nonzero one that
\* names a Class entry as that class; with a nonzero index that is out of
\* range or names another entry the decode has failed with Link, there and
\* then, and the index was not decoded as absent.  The exception entries of
\* the Code attribute decoded hold these catch types, in order.
C18_CatchTypeAbsentOnlyAtZero ==
    /\ \A i \in 1..Len(last.drs) :
          LET d == last.drs[i]
          IN  d.ctx = "catch_type" =>
                 CASE d.slot = "zero" -> d.out = "absent"
                   [] d.slot = "Class" -> d.out = "ok" /\ (Running => d.h = pool[d.idx].a)
                   [] OTHER -> /\ pc = "done" /\ result = "Link"
                               /\ d.out = "Link" /\ i = Len(last.drs)
    /\ (AttributeNamed(N_Code) /\ Running) =>
          /\ Len(last.val.exceptions) = Len(CatchTypesRead)
          /\ \A k \in 1..Len(CatchTypesRead) :
                last.val.exceptions[k].catch_type =
                   IF CatchTypesRead[k].slot = "zero" THEN None
                   ELSE Some(CatchTypesRead[k].h)

\* an exception entry whose catch_type names an entry that is not a Class
\* has been read
C18_CatchTypeNamesNoClass ==
    /\ AttributeNamed(N_Code) /\ pc = "done"
    /\ \E d \in Range(last.drs) : d.ctx = "catch_type" /\ d.slot = "Utf8"

\* what pass 2 did, once it has run: for every entry it resolved, at most
\* five gets (the Class and its Utf8, the NameAndType and its two Utf8), none
\* deeper than two gets below the entry (entry, Class or NameAndType, Utf8:
\* three levels); a get that does not find the variant
\* matched is the last one made, and pass 2 has failed with Link there;
\* otherwise pass 2 has resolved every entry
HopsBounded ==
    last.op = "resolve" =>
       /\ pc \in {"access", "done"}
       /\ \A e \in 1..Len(last.val) :
             LET hs == last.val[e]
             IN  /\ Len(hs) <= 5
                 /\ \A k \in 1..Len(hs) :
                       /\ hs[k].depth \in {1, 2}
                       /\ hs[k].found # hs[k].need =>
                             /\ k = Len(hs) /\ e = Len(last.val)
                             /\ pc = "done" /\ result = "Link"
       /\ pc = "done" =>
             /\ result = "Link" /\ last.val # <<>>
             /\ LET hs == last.val[Len(last.val)]
                IN  hs # <<>> /\ hs[Len(hs)].found # hs[Len(hs)].need
       /\ pc = "access" => Len(last.val) = Len(proxy) /\ Len(pool) = Len(proxy)

\* pass 2 can always run, and one run of it ends pass 2
ResolveLeaves == pc = "resolve" => pc' \in {"access", "done"}

\* C19: pass 2 terminates for every pool of proxies, those whose entries
\* reference themselves or each other included: it can always run, one run
\* ends it, the resolution of an entry goes at most three levels deep, and a
\* reference that does not land on the variant required at its level ends
\* pass 2 with Link and is not followed.
C19_ResolutionEndsWithinThreeLevels ==
    /\ []HopsBounded
    /\ [](pc = "resolve" => ENABLED ResolvePool)
    /\ [][ResolveLeaves]_vars

\* pass 2 has ended with Link at an entry that reaches itself: a FieldRef,
\* MethodRef or InterfaceMethodRef whose Class entry names it
C19_EntryReachesItself ==
    /\ last.op = "resolve" /\ result = "Link"
    /\ \E h \in Range(last.val[Len(last.val)]) : h.depth = 2 /\ h.idx = Len(last.val)

\* the attributes whose decoder reads typed fields after the length
TypedKinds ==
    {"SourceFile", "ConstantValue", "LineNumberTable", "LocalVariableTable", "Exceptions",
     "InnerClasses", "Code"}

\* the bytes that the fields and tables of the decoded attribute a take in
\* the source, after the length (for Code up to the attributes_count of its
\* nested table, which the decoder reads entry by entry)
BodyBytes(a) ==
    CASE a.kind \in {"SourceFile", "ConstantValue"} -> 2
      [] a.kind = "LineNumberTable" -> 2 + 4 * Len(a.lines)
      [] a.kind = "LocalVariableTable" -> 2 + 10 * Len(a.variables)
      [] a.kind = "Exceptions" -> 2 + 2 * Len(a.exceptions_classes)
      [] a.kind = "InnerClasses" -> 2 + 8 * Len(a.classes)
      [] a.kind = "Code" -> 2 + 2 + 4 + Len(a.code) + 2 + 8 * Len(a.exceptions) + 2

\* C20: after a SourceFile, ConstantValue, LineNumberTable,
\* LocalVariableTable, Exceptions, InnerClasses or Code attribute has been
\* decoded, the source stands after the name index, the length and the bytes
\* of the fields and tables decoded, whatever length was declared; and no
\* attribute fails the decode with Parsing but a Synthetic or an inner-class
\* flags word: a declared length that differs raises no error.
C20_DeclaredLengthNotEnforced ==
    /\ (last.op \in {"attribute", "code_attribute"} /\ Running
           /\ last.val.kind \in TypedKinds) =>
          /\ last.words[1] \in LenChoices
          /\ stream.pos = last.from + 2 + 4 + BodyBytes(last.val)
    /\ (last.op \in {"attribute", "code_attribute"} /\ result = "Parsing") =>
          AttributeNamed(N_Synthetic) \/ last.flags # <<>>

\* a ConstantValue attribute has been decoded whose declared length is not
\* the two bytes of its body
C20_ConstantValueOfOtherLength ==
    /\ AttributeNamed(N_ConstantValue) /\ Running
    /\ last.words[1] # BodyBytes(last.val)

=============================================================================
